---------------------------- MODULE Spec2Model ----------------------------
(***************************************************************************)
(* A model of glog's JSON record builder (type Json), of the verbosity     *)
(* gate json() behind J/JInfo/JWarning/JError/JFatal, and of the           *)
(* severity-routed sink loggingT.outputj.                                  *)
(*                                                                         *)
(* Byte strings are sequences of integers.  A Go string is a sequence of   *)
(* "units": an integer below 128 is that ASCII byte, 255 is a byte that is *)
(* not valid UTF-8, and any other integer >= 128 is one whole rune in its  *)
(* valid UTF-8 encoding (8232 and 8233 are U+2028 and U+2029).  The loop   *)
(* index of Json.string therefore advances one unit where the code         *)
(* advances `size` bytes.                                                  *)
(***************************************************************************)
EXTENDS Integers, Sequences, FiniteSets, Bags, TLC

VARIABLES
    \* process-wide configuration
    parsed,          \* flag.Parsed()
    toStderr,        \* logging.toStderr
    alsoToStderr,    \* logging.alsoToStderr
    stderrThreshold, \* logging.stderrThreshold
    fatalNoStacks,   \* fatalNoStacks > 0
    traceLocation,   \* logging.traceLocation: NoLocation or <<file, line>>
    verbosity,       \* logging.verbosity
    vmodule,         \* logging.vmodule.filter: the ordered rule list
    vmap,            \* logging.vmap: the call-site cache, key -> threshold
    inlined,         \* whether the build inlined the J* wrappers
    JVersion, JFieldPrefix, JEscapeHTML,
    \* sink
    mu,              \* logging.mu: Free or the thread holding it
    file,            \* logging.file: tier -> NoFile or the writes it received
    stderr,          \* the writes standard error received
    exitStatus,      \* Running or the status the process exited with
    severityStats,   \* severityStats: tier -> [lines, bytes]
    jbufpool,        \* the bag of Json objects resting in jbufpool
    \* the logging statement in progress (sequential specifications)
    j,               \* the handle the statement holds
    \* the threads of the concurrent specification
    th,
    \* history, for stating the claims
    calls,           \* one entry per outputj invocation
    gate             \* one entry per json() invocation

vars == <<parsed, toStderr, alsoToStderr, stderrThreshold, fatalNoStacks,
          traceLocation, verbosity, vmodule, vmap, inlined,
          JVersion, JFieldPrefix, JEscapeHTML,
          mu, file, stderr, exitStatus, severityStats, jbufpool,
          j, th, calls, gate>>

configVars == <<parsed, toStderr, alsoToStderr, stderrThreshold, fatalNoStacks,
                traceLocation, JVersion, JFieldPrefix, JEscapeHTML>>
vVars    == <<verbosity, vmodule, inlined>>
sinkVars == <<mu, file, stderr, exitStatus, severityStats, jbufpool, calls>>

---------------------------------------------------------------------------
(* Severities and small helpers *)

infoLog    == 0
warningLog == 1
errorLog   == 2
fatalLog   == 3
Severities == infoLog..fatalLog

RuneSelf  == 128
RuneError == 65533
InvalidByte == 255

Running  == <<>>          \* exitStatus while the process runs; <<n>> after os.Exit(n)
Free     == 0
NoFile   == [open |-> FALSE, w |-> <<>>]   \* a nil l.file[s]
NoLocation == <<>>         \* traceLocation not set

\* lowerSeverityName[s] as bytes
lowerSeverityName(s) ==
    CASE s = infoLog    -> <<105, 110, 102, 111>>                    \* info
      [] s = warningLog -> <<119, 97, 114, 110, 105, 110, 103>>      \* warning
      [] s = errorLog   -> <<101, 114, 114, 111, 114>>               \* error
      [] s = fatalLog   -> <<102, 97, 116, 97, 108>>                 \* fatal

\* digits[d] and hex[n]
digits(d) == 48 + d
hex(n) == IF n < 10 THEN 48 + n ELSE 87 + n

\* safeSet[b]: every ASCII byte from ' ' on except '"' and '\'
safeSet(b) == b >= 32 /\ b < RuneSelf /\ b \notin {34, 92}
\* htmlSafeSet[b]: safeSet without '&', '<' and '>'
htmlSafeSet(b) == safeSet(b) /\ b \notin {38, 60, 62}

---------------------------------------------------------------------------
(* Json.string: the JSON string encoder *)

\* utf8.DecodeRuneInString on one unit: the rune (size is one unit)
DecodeRune(u) == IF u = InvalidByte THEN RuneError ELSE u

\* the escape written for an ASCII byte that is not safe
escapeByte(b) ==
    CASE b \in {92, 34} -> <<92, b>>
      [] b = 10 -> <<92, 110>>
      [] b = 13 -> <<92, 114>>
      [] b = 9  -> <<92, 116>>
      [] OTHER  -> <<92, 117, 48, 48, hex(b \div 16), hex(b % 16)>>

\* the part of s not yet copied, s[start:i], when there is one
flushRun(p, s, start, i) == IF start < i THEN p \o SubSeq(s, start, i - 1) ELSE p

RECURSIVE stringLoop(_, _, _, _, _)
stringLoop(p, s, i, start, escapeHTML) ==
    IF i > Len(s)
    THEN flushRun(p, s, start, Len(s) + 1)
    ELSE LET b == s[i] IN
         IF b < RuneSelf
         THEN IF htmlSafeSet(b) \/ (~escapeHTML /\ safeSet(b))
              THEN stringLoop(p, s, i + 1, start, escapeHTML)
              ELSE stringLoop(flushRun(p, s, start, i) \o escapeByte(b),
                              s, i + 1, i + 1, escapeHTML)
         ELSE LET c == DecodeRune(b) IN
              IF c = RuneError /\ b = InvalidByte
              THEN stringLoop(flushRun(p, s, start, i) \o <<92, 117, 102, 102, 102, 100>>,
                              s, i + 1, i + 1, escapeHTML)
              ELSE IF c = 8232 \/ c = 8233
              THEN stringLoop(flushRun(p, s, start, i) \o <<92, 117, 50, 48, 50, hex(c % 16)>>,
                              s, i + 1, i + 1, escapeHTML)
              ELSE stringLoop(p, s, i + 1, start, escapeHTML)

\* j.string(s, escapeHTML) applied to the buffer p
string(p, s, escapeHTML) == stringLoop(p \o <<34>>, s, 1, 1, escapeHTML) \o <<34>>

---------------------------------------------------------------------------
(* strconv and the header *)

RECURSIVE decimal(_)
decimal(n) == IF n < 10 THEN <<digits(n)>> ELSE decimal(n \div 10) \o <<digits(n % 10)>>

\* strconv.AppendInt(p, i, 10) and strconv.AppendUint(p, i, 10)
AppendInt(p, i)  == IF i < 0 THEN p \o <<45>> \o decimal(-i) ELSE p \o decimal(i)
AppendUint(p, i) == p \o decimal(i)

\* strconv.AppendFloat(p, f, 'f', -1, bits) on the sample values: a float is
\* modelled by the text the standard library prints for it
AppendFloat(p, f, bits) == p \o f

\* The header's first 65 bytes are written by index into j.buf; the model
\* lists them in index order.

\* Json.twoDigits(i, d): the bytes at i and i+1
twoDigits(d) == <<digits((d \div 10) % 10), digits(d % 10)>>

\* the four year digits at 9..12
yearDigits(y) == <<digits((y \div 1000) % 10), digits((y \div 100) % 10),
                   digits((y \div 10) % 10), digits(y % 10)>>

\* the loops "for d != 0" of Json.timestamp: the digits of d, none for 0
RECURSIVE tsDigits(_)
tsDigits(d) == IF d = 0 THEN <<>> ELSE tsDigits(d \div 10) \o <<digits(d % 10)>>

\* Json.timestamp(48, now): the 17 bytes at 48..64, written backwards from
\* 64: six digits of microseconds (zero-padded), '.', the digits of the Unix
\* time.  The bytes the loops do not reach (a Unix time of fewer than ten
\* digits) keep what the buffer held there: old is j.buf[48..64] before.
timestamp(now, old) ==
    LET frac == tsDigits(now.micro)
        secs == tsDigits(now.unix)
    IN  SubSeq(old, 1, 10 - Len(secs)) \o secs \o <<46>>
        \o [i \in 1..(6 - Len(frac)) |-> 48] \o frac

\* jheader up to j.p = j.buf[:65]; old is j.buf[0..64] as Get returned it
headerBuf(now, old) ==
    LET off == IF now.offset > 0 THEN now.offset \div 60 ELSE (-now.offset) \div 60
    IN  <<123, 34, 116, 105, 109, 101, 34, 58, 34>>                 \* {"time":"
        \o yearDigits(now.year) \o <<45>> \o twoDigits(now.month) \o <<45>>
        \o twoDigits(now.day) \o <<84>> \o twoDigits(now.hour) \o <<58>>
        \o twoDigits(now.minute) \o <<58>> \o twoDigits(now.second)
        \o <<IF now.offset > 0 THEN 43 ELSE 45>>
        \o twoDigits(off \div 60) \o <<58>> \o twoDigits(off % 60)
        \o <<34, 44, 34, 116, 105, 109, 101, 115, 116, 97, 109, 112, 34, 58>>  \* ","timestamp":
        \o timestamp(now, SubSeq(old, 49, 65))

\* a nil *Json, and the fields of a pooled Json that jheader leaves as they are
\* (new(Json) zeroes them and nothing assigns them)
NilJson == [nil |-> TRUE, buf |-> <<>>, p |-> <<>>, s |-> infoLog, file |-> <<>>, line |-> 0]

\* new(Json), what jbufpool's New makes: buf (its first 65 bytes) is zero
NewJson == [NilJson EXCEPT !.nil = FALSE, !.buf = [i \in 1..65 |-> 0]]

host == <<104>>       \* the host name, "h"
pid  == 7

\* jheader(s, level, file, line), given the clock's reading and the Json
\* object jb that jbufpool.Get() returned
jheader(s, level, fileName, line, now, jb) ==
    LET p0 == headerBuf(now, jb.buf)
        p1 == p0 \o <<44, 34, 108, 101, 118, 101, 108, 34, 58, 34>> \o lowerSeverityName(s)
        p2 == IF JVersion # <<>>
              THEN p1 \o <<34, 44, 34, 118, 101, 114, 115, 105, 111, 110, 34, 58, 34>> \o JVersion
              ELSE p1
        p3 == p2 \o <<34, 44, 34, 104, 111, 115, 116, 34, 58, 34>> \o host
        p4 == AppendInt(p3 \o <<34, 44, 34, 112, 105, 100, 34, 58>>, pid)
        p5 == p4 \o <<44, 34, 102, 105, 108, 101, 34, 58, 34>> \o fileName
        p6 == AppendInt(p5 \o <<34, 44, 34, 108, 105, 110, 101, 34, 58>>, line)
    IN  [jb EXCEPT !.buf = p0, !.p = p6]

---------------------------------------------------------------------------
(* The field builders, as functions of the handle *)

\* ,"<prefix><name>
fieldName(p, name) == p \o <<44, 34>> \o JFieldPrefix \o name

Int64(jj, name, i) ==
    IF ~jj.nil THEN [jj EXCEPT !.p = AppendInt(fieldName(jj.p, name) \o <<34, 58>>, i)] ELSE jj

Uint64(jj, name, i) ==
    IF ~jj.nil THEN [jj EXCEPT !.p = AppendUint(fieldName(jj.p, name) \o <<34, 58>>, i)] ELSE jj

Float32(jj, name, f) ==
    IF ~jj.nil THEN [jj EXCEPT !.p = AppendFloat(fieldName(jj.p, name) \o <<34, 58>>, f, 32)] ELSE jj

Float64(jj, name, f) ==
    IF ~jj.nil THEN [jj EXCEPT !.p = AppendFloat(fieldName(jj.p, name) \o <<34, 58>>, f, 64)] ELSE jj

Bool(jj, name, b) ==
    IF ~jj.nil
    THEN [jj EXCEPT !.p = fieldName(jj.p, name) \o
                          (IF b THEN <<34, 58, 116, 114, 117, 101>>
                                ELSE <<34, 58, 102, 97, 108, 115, 101>>)]
    ELSE jj

Err(jj, err) ==
    IF ~jj.nil
    THEN [jj EXCEPT !.p = string(jj.p \o <<44, 34, 101, 114, 114, 111, 114, 34, 58>>,
                                 err, JEscapeHTML)]
    ELSE jj

Str(jj, name, s) ==
    IF ~jj.nil
    THEN [jj EXCEPT !.p = string(fieldName(jj.p, name) \o <<34, 58>>, s, JEscapeHTML)]
    ELSE jj

\* the loop of Json.Strs over ss[i..]
RECURSIVE strsLoop(_, _, _)
strsLoop(p, ss, i) ==
    IF i > Len(ss) THEN p
    ELSE LET q == string(p, ss[i], JEscapeHTML)
         IN  strsLoop(IF i < Len(ss) THEN q \o <<44>> ELSE q, ss, i + 1)

Strs(jj, name, ss) ==
    IF ~jj.nil
    THEN [jj EXCEPT !.p = strsLoop(jj.p \o <<34>> \o JFieldPrefix \o name \o <<34, 58, 91>>,
                                   ss, 1) \o <<93, 44>>]
    ELSE jj

\* what Json.Msg appends before it hands the buffer to outputj
msgBytes(p, s) ==
    (IF s # <<>>
     THEN string(p \o <<44, 34, 109, 101, 115, 115, 97, 103, 101, 34, 58>>, s, FALSE)
     ELSE p) \o <<125, 10>>

---------------------------------------------------------------------------
(* The sink: loggingT.outputj *)

ErrExit == 2                     \* the status l.exit leaves with
MainThread == 1                  \* the thread of the sequential specifications

stackSelf == <<103>>             \* stacks(false): the calling goroutine's stack
stackAll  == <<71>>              \* stacks(true): every goroutine's stack
beforeParse ==                   \* "ERROR: logging before flag.Parse: "
    <<69, 82, 82, 79, 82, 58, 32, 108, 111, 103, 103, 105, 110, 103, 32, 98, 101, 102,
      111, 114, 101, 32, 102, 108, 97, 103, 46, 80, 97, 114, 115, 101, 58, 32>>

\* one Write call on a stream: the outputj invocation it belongs to, what it
\* carries (data, prefix, stack, trace) and the bytes
W(id, kind, bytes) == [id |-> id, kind |-> kind, bytes |-> bytes]

\* l.traceLocation.isSet() and l.traceLocation.match(file, line)
traceMatch(fileName, line) == traceLocation # NoLocation /\ traceLocation = <<fileName, line>>

\* data := buf.p, after the backtrace the trace location may have appended
recordData(buf, fileName, line) ==
    IF traceMatch(fileName, line) THEN buf.p \o stackSelf ELSE buf.p

\* mutant of mirrorToStderr: the threshold comparison is lost
mirrorToStderr_NoThreshold(s, also) == also \/ alsoToStderr

\* alsoToStderr || l.alsoToStderr || s >= l.stderrThreshold.get()
mirrorToStderr(s, also) == also \/ alsoToStderr \/ s >= stderrThreshold

\* l.createFiles(s): the tiers from s down to infoLog that have no file get
\* one, the highest first; failAt >= 0 is the tier whose creation fails
createFiles(f, s, failAt) ==
    [t \in Severities |-> IF t <= s /\ t > failAt /\ ~f[t].open
                           THEN [open |-> TRUE, w |-> <<>>] ELSE f[t]]

\* the tiers whose creation can fail in createFiles(s): those still without a file
FailTiers(s) == {-1} \cup {t \in Severities : t <= s /\ ~file[t].open}

\* mutant of fanOutTiers: the cases do not fall through
fanOutTiers_NoFallthrough(s) == {s}

\* the switch with fallthrough: the tiers the record is written to
fanOutTiers(s) == {t \in Severities : t <= s}

\* the files after the fan-out of one record
fanOut(f, s, w) ==
    [t \in Severities |-> IF t \in fanOutTiers(s) THEN [f[t] EXCEPT !.w = Append(@, w)] ELSE f[t]]

\* mutant of fatalDump: the trace goes to the FATAL file only
fatalDump_FatalOnly(f, w) ==
    [t \in Severities |-> IF t = fatalLog /\ f[t].open THEN [f[t] EXCEPT !.w = Append(@, w)] ELSE f[t]]

\* the files after the fatal dump: the trace goes to every file that is open
fatalDump(f, w) ==
    [t \in Severities |-> IF f[t].open THEN [f[t] EXCEPT !.w = Append(@, w)] ELSE f[t]]

\* the severities severityStats has counters for
HasStats(s) == s \in {infoLog, warningLog, errorLog}

\* what the history keeps of an outputj invocation
Call(id, s, also, data, outcome, flushed) ==
    [id |-> id, s |-> s, also |-> also, data |-> data,
     parsed |-> parsed, toStderr |-> toStderr, alsoToStderr |-> alsoToStderr,
     threshold |-> stderrThreshold, noStacks |-> fatalNoStacks,
     openBefore |-> {t \in Severities : file[t].open},
     outcome |-> outcome, flushed |-> flushed]

\* l.outputj(s, buf, file, line, alsoToStderr), run to its end by thread
\* MainThread; failAt is what the file system answers to createFiles
outputj(s, buf, fileName, line, also, failAt) ==
    LET id    == Len(calls) + 1
        data  == recordData(buf, fileName, line)
        w     == W(id, "data", data)
        toFiles == parsed /\ ~toStderr
        create  == toFiles /\ ~file[s].open
        failed  == create /\ failAt >= 0
        err0  == IF ~parsed THEN stderr \o <<W(id, "prefix", beforeParse), w>>
                 ELSE IF toStderr THEN Append(stderr, w)
                 ELSE IF mirrorToStderr(s, also) THEN Append(stderr, w)
                 ELSE stderr
        file0 == IF create THEN createFiles(file, s, failAt) ELSE file
        file1 == IF toFiles THEN fanOut(file0, s, w) ELSE file0
    IN  /\ mu = Free
        /\ exitStatus = Running
        /\ IF failed
           THEN \* the record goes to standard error and l.exit ends the process,
                \* the lock still held
                /\ stderr' = Append(err0, w)
                /\ file' = file0
                /\ exitStatus' = <<ErrExit>>
                /\ mu' = MainThread
                /\ calls' = Append(calls, Call(id, s, also, data, "createFailed", FALSE))
                /\ UNCHANGED <<jbufpool, severityStats>>
           ELSE IF s = fatalLog
           THEN IF fatalNoStacks
                THEN /\ stderr' = err0
                     /\ file' = file1
                     /\ exitStatus' = <<1>>
                     /\ mu' = Free
                     /\ calls' = Append(calls, Call(id, s, also, data, "exit", TRUE))
                     /\ UNCHANGED <<jbufpool, severityStats>>
                ELSE /\ stderr' = IF ~toStderr THEN Append(err0, W(id, "stack", stackSelf))
                                  ELSE err0
                     /\ file' = fatalDump(file1, W(id, "trace", stackAll))
                     /\ exitStatus' = <<255>>
                     /\ mu' = Free
                     /\ calls' = Append(calls, Call(id, s, also, data, "exit", TRUE))
                     /\ UNCHANGED <<jbufpool, severityStats>>
           ELSE /\ stderr' = err0
                /\ file' = file1
                /\ jbufpool' = jbufpool (+) SetToBag({[buf EXCEPT !.p = data]})
                /\ mu' = Free
                /\ severityStats' =
                       IF HasStats(s)
                       THEN [severityStats EXCEPT ![s] = [lines |-> @.lines + 1,
                                                          bytes |-> @.bytes + Len(data)]]
                       ELSE severityStats
                /\ calls' = Append(calls, Call(id, s, also, data, "returned", FALSE))
                /\ UNCHANGED exitStatus

---------------------------------------------------------------------------
(* Bounds and input sets *)

MaxCalls  == 2        \* outputj invocations in SpecSink
MaxFields == 2        \* field-builder calls of one logging statement

\* no logging statement has started (then j.st is "held", then "done")
Idle == [st |-> "idle"]

NoStats == [s \in Severities |-> [lines |-> 0, bytes |-> 0]]

\* what every specification starts from besides its configuration
InitRest ==
    /\ mu = Free
    /\ file = [t \in Severities |-> NoFile]
    /\ stderr = <<>>
    /\ exitStatus = Running
    /\ severityStats = NoStats
    /\ jbufpool = EmptyBag
    /\ vmap = <<>>
    /\ j = Idle
    /\ th = <<>>
    /\ calls = <<>>
    /\ gate = <<>>

---------------------------------------------------------------------------
(* SpecSink: outputj driven with every severity and every sink mode *)

sinkFile == <<97, 46, 103, 111>>          \* "a.go"
sinkRecord == [NewJson EXCEPT !.p = <<123, 125, 10>>]

InitSink ==
    /\ parsed \in BOOLEAN
    /\ toStderr \in BOOLEAN
    /\ alsoToStderr \in BOOLEAN
    /\ stderrThreshold \in Severities
    /\ fatalNoStacks \in BOOLEAN
    /\ traceLocation \in {NoLocation, <<sinkFile, 10>>, <<sinkFile, 11>>}
    /\ verbosity = 0 /\ vmodule = <<>> /\ inlined = FALSE
    /\ JVersion = <<>> /\ JFieldPrefix = <<>> /\ JEscapeHTML = FALSE
    /\ InitRest

\* a record of severity s reaches outputj
SinkLog ==
    /\ Len(calls) < MaxCalls
    /\ \E s \in Severities, also \in BOOLEAN :
         \E failAt \in FailTiers(s) :
            outputj(s, sinkRecord, sinkFile, 10, also, failAt)
    /\ UNCHANGED <<configVars, vVars, vmap, j, th, gate>>

\* flag.Parse() is called
FlagParse ==
    /\ exitStatus = Running
    /\ ~parsed
    /\ parsed' = TRUE
    /\ UNCHANGED <<toStderr, alsoToStderr, stderrThreshold, fatalNoStacks, traceLocation,
                   JVersion, JFieldPrefix, JEscapeHTML, vVars, vmap, sinkVars, j, th, gate>>

\* the "stderr only" toggle is changed at run time
SetToStderr ==
    /\ exitStatus = Running
    /\ parsed
    /\ toStderr' = ~toStderr
    /\ UNCHANGED <<parsed, alsoToStderr, stderrThreshold, fatalNoStacks, traceLocation,
                   JVersion, JFieldPrefix, JEscapeHTML, vVars, vmap, sinkVars, j, th, gate>>

NextSink == SinkLog \/ FlagParse \/ SetToStderr

SpecSink == InitSink /\ [][NextSink]_vars

---------------------------------------------------------------------------
(* Claims about the sink, checked under SpecSink *)

\* how many writes of the given kind an invocation made on a stream
Count(ws, id, kind) == Cardinality({i \in 1..Len(ws) : ws[i].id = id /\ ws[i].kind = kind})

InFiles(c)  == c.parsed /\ ~c.toStderr
Mirrored(c) == c.also \/ c.alsoToStderr \/ c.s >= c.threshold
CallIds == 1..Len(calls)

\* C1: a record of severity S that outputj writes to files is in the file of
\* every tier from INFO up to S exactly once, and in no file of a higher tier,
\* whatever was logged before it.
C1_FanOut ==
    \A i \in CallIds : \A t \in Severities :
        LET c == calls[i]
            n == Count(file[t].w, c.id, "data")
        IN  /\ t > c.s => n = 0
            /\ (InFiles(c) /\ c.outcome # "createFailed" /\ t <= c.s) => n = 1 /\ file[t].open
            /\ n <= 1

\* C1 witness: a second record, of severity WARNING, went to the files while
\* the ERROR file was open: it is in WARNING and INFO and not in ERROR
C1_Witness ==
    /\ Len(calls) >= 2
    /\ calls[2].s = warningLog /\ InFiles(calls[2]) /\ calls[2].outcome = "returned"
    /\ file[errorLog].open /\ Len(file[errorLog].w) = 1
    /\ Count(file[warningLog].w, 2, "data") = 1
    /\ Count(file[infoLog].w, 2, "data") = 1

\* the three modes of the routing, for one invocation
BeforeParseRouted(c) ==
    /\ \E k \in 1..(Len(stderr) - 1) :
          /\ stderr[k] = W(c.id, "prefix", beforeParse)
          /\ stderr[k + 1] = W(c.id, "data", c.data)
    /\ Count(stderr, c.id, "data") = 1
    /\ \A t \in Severities : Count(file[t].w, c.id, "data") = 0

StderrOnlyRouted(c) ==
    /\ Count(stderr, c.id, "data") = 1
    /\ Count(stderr, c.id, "prefix") = 0
    /\ \A t \in Severities : Count(file[t].w, c.id, "data") = 0

FilesRouted(c) ==
    /\ \A t \in Severities : Count(file[t].w, c.id, "data") = IF t <= c.s THEN 1 ELSE 0
    /\ Count(stderr, c.id, "data") = IF Mirrored(c) THEN 1 ELSE 0
    /\ Count(stderr, c.id, "prefix") = 0

\* a failed file creation: standard error gets the record, no file does
CreateFailedRouted(c) ==
    /\ Count(stderr, c.id, "data") = IF Mirrored(c) THEN 2 ELSE 1
    /\ \A t \in Severities : Count(file[t].w, c.id, "data") = 0
    /\ exitStatus # Running

\* C2 as stated: before flag.Parse the record goes to standard error behind
\* the diagnostic prefix and to no file; in stderr-only mode to standard error
\* only; otherwise to the files, and to standard error exactly when the caller
\* asks, the also-to-stderr toggle is set or the severity reaches the threshold.
C2_Original ==
    \A i \in CallIds :
        LET c == calls[i]
        IN  IF ~c.parsed THEN BeforeParseRouted(c)
            ELSE IF c.toStderr THEN StderrOnlyRouted(c)
            ELSE FilesRouted(c)

\* C2 amended: as C2, where the third case holds when the tier's file is open
\* or can be created; when its creation fails the record is written to
\* standard error, to no file, and the process ends.
C2_Routing ==
    \A i \in CallIds :
        LET c == calls[i]
        IN  IF ~c.parsed THEN BeforeParseRouted(c)
            ELSE IF c.toStderr THEN StderrOnlyRouted(c)
            ELSE IF c.outcome = "createFailed" THEN CreateFailedRouted(c)
            ELSE FilesRouted(c)

\* C2 witness: an ERROR record in files mode, below the threshold and not
\* asked for by the caller, after a record logged before flag.Parse
C2_Witness ==
    /\ Len(calls) >= 2
    /\ ~calls[1].parsed
    /\ InFiles(calls[2]) /\ calls[2].s = errorLog /\ ~Mirrored(calls[2])
    /\ calls[2].outcome = "returned"
    /\ Count(file[errorLog].w, 2, "data") = 1

\* the last write a file received
LastWrite(t) == file[t].w[Len(file[t].w)]

\* the fatal dump of invocation c: the trace ends every open file, right
\* behind the record where the record went to the files
DumpedAfterRecord(c) ==
    \A t \in Severities :
        IF file[t].open
        THEN /\ Count(file[t].w, c.id, "trace") = 1
             /\ LastWrite(t) = W(c.id, "trace", stackAll)
             /\ InFiles(c) => /\ Len(file[t].w) >= 2
                              /\ file[t].w[Len(file[t].w) - 1] = W(c.id, "data", c.data)
        ELSE file[t].w = <<>>

NoDump(c) ==
    /\ Count(stderr, c.id, "stack") = 0
    /\ \A t \in Severities : Count(file[t].w, c.id, "trace") = 0

\* C3 as stated: a FATAL record never returns from outputj; without the
\* no-stacks flag the trace is written to every open file after the record's
\* fan-out, a flush is attempted and the exit status is 255; with the flag no
\* trace is written and the status is 1.
C3_Original ==
    \A i \in CallIds :
        LET c == calls[i]
        IN  c.s = fatalLog =>
              /\ c.outcome # "returned" /\ exitStatus # Running
              /\ IF c.noStacks
                 THEN NoDump(c) /\ exitStatus = <<1>>
                 ELSE /\ InFiles(c) => \A t \in Severities : file[t].open
                      /\ DumpedAfterRecord(c) /\ c.flushed /\ exitStatus = <<255>>

\* C3 amended: as C3 when the FATAL tier's file is open or can be created (or
\* the files are not used); when its creation fails the process still ends,
\* through l.exit, with no dump in any file.
C3_FatalExits ==
    \A i \in CallIds :
        LET c == calls[i]
        IN  c.s = fatalLog =>
              /\ c.outcome # "returned" /\ exitStatus # Running
              /\ IF c.outcome = "createFailed"
                 THEN NoDump(c) /\ exitStatus = <<ErrExit>>
                 ELSE IF c.noStacks
                 THEN NoDump(c) /\ exitStatus = <<1>>
                 ELSE /\ InFiles(c) => \A t \in Severities : file[t].open
                      /\ DumpedAfterRecord(c) /\ c.flushed /\ exitStatus = <<255>>

\* C3 witness: a FATAL record in files mode, no-stacks flag clear, after an
\* earlier record; status 255 and the trace in all four files
C3_Witness ==
    /\ Len(calls) = 2
    /\ calls[2].s = fatalLog /\ InFiles(calls[2]) /\ ~calls[2].noStacks
    /\ exitStatus = <<255>>
    /\ \A t \in Severities : file[t].open /\ LastWrite(t).kind = "trace"

---------------------------------------------------------------------------
(* The verbosity gate: json() behind J, JInfo, JWarning, JError, JFatal *)

\* the severity each wrapper passes to json
wrapperSeverity(w) ==
    CASE w = "J" -> infoLog
      [] w = "JInfo" -> infoLog
      [] w = "JWarning" -> warningLog
      [] w = "JError" -> errorLog
      [] w = "JFatal" -> fatalLog

\* the file that defines the wrappers and json: "json.go"
jsonGoFile == <<106, 115, 111, 110, 46, 103, 111>>

\* runtime.Caller(2) in json: the file (base name) and line of the statement
\* that called the wrapper
callerFile(site) == site.file
callerLine(site) == IF site.line < 0 THEN 0 ELSE site.line

\* runtime.Callers(2, logging.pcs[:]) in json: frame 0 is Callers, frame 1 is
\* json, so pcs[0] is the return address inside the wrapper.  Where the build
\* inlined the wrapper into its caller that address differs per statement;
\* the function it belongs to is the wrapper either way.
callSitePC(w, site) == IF inlined THEN <<w, site.id>> ELSE <<w, 0>>

\* the source file of the function a pc belongs to (runtime.FuncForPC(pc).FileLine)
pcFile(pc) == jsonGoFile

\* the bare name a rule is matched against: the ".go" suffix is dropped
bareName(f) ==
    IF Len(f) >= 3 /\ SubSeq(f, Len(f) - 2, Len(f)) = <<46, 103, 111>>
    THEN SubSeq(f, 1, Len(f) - 3) ELSE f

\* glob match with '*' and '?'
RECURSIVE globMatch(_, _)
globMatch(pat, name) ==
    IF pat = <<>> THEN name = <<>>
    ELSE IF Head(pat) = 42
         THEN \/ globMatch(Tail(pat), name)
              \/ (name # <<>> /\ globMatch(pat, Tail(name)))
         ELSE /\ name # <<>>
              /\ (Head(pat) = 63 \/ Head(pat) = Head(name))
              /\ globMatch(Tail(pat), Tail(name))

\* the level of the first rule of filter[i..] that matches, else the default
RECURSIVE firstMatch(_, _, _, _)
firstMatch(filter, i, name, default) ==
    IF i > Len(filter) THEN default
    ELSE IF globMatch(filter[i].pattern, name) THEN filter[i].level
    ELSE firstMatch(filter, i + 1, name, default)

\* logging.setV(pc): the threshold of the file pc lies in
setV(pc) == firstMatch(vmodule, 1, bareName(pcFile(pc)), verbosity)

\* atomic.LoadInt32(&logging.filterLength)
filterLength == Len(vmodule)

\* json(s, level): the handle it returns and what the lookup did; jb is what
\* jbufpool.Get() returns if jheader is reached
json(s, level, w, site, now, jb) ==
    LET on  == jheader(s, level, callerFile(site), callerLine(site), now, jb)
        pc  == callSitePC(w, site)
        hit == pc \in DOMAIN vmap
        v   == IF hit THEN vmap[pc] ELSE setV(pc)
    IN  IF verbosity >= level
        THEN [h |-> on, looked |-> FALSE, pc |-> pc, v |-> verbosity, vmap |-> vmap]
        ELSE IF filterLength > 0
        THEN [h |-> IF v >= level THEN on ELSE NilJson,
              looked |-> TRUE, pc |-> pc, v |-> v,
              vmap |-> IF hit THEN vmap ELSE (pc :> v) @@ vmap]
        ELSE [h |-> NilJson, looked |-> FALSE, pc |-> pc, v |-> verbosity, vmap |-> vmap]

\* timeNow(): the readings the model uses.  Nows is a clock of today; the
\* Unix time of EarlyNows has fewer than ten digits, one of them none
Nows == {[year |-> 2026, month |-> 10, day |-> 29, hour |-> 10, minute |-> 5, second |-> 7,
          micro |-> 1234, unix |-> 1793264707, offset |-> 3600]}
EarlyNows == {[year |-> 1970, month |-> 1, day |-> 1, hour |-> 4, minute |-> 25, second |-> 45,
               micro |-> 100000, unix |-> 12345, offset |-> 3600],
              [year |-> 1970, month |-> 1, day |-> 1, hour |-> 0, minute |-> 0, second |-> 0,
               micro |-> 123456, unix |-> 0, offset |-> 0]}

\* jbufpool.Get(): an object resting in the pool, whichever, or a new one
poolGet == {NewJson} \cup BagToSet(jbufpool)

\* a logging statement calls wrapper w (with level, for J) at a call site
Start(from, Ws, Levels, Sites, max, Clocks) ==
    /\ exitStatus = Running
    /\ mu = Free
    /\ j.st \in from
    /\ \E w \in Ws, site \in Sites, now \in Clocks, jb \in poolGet :
         \E level \in (IF w = "J" THEN Levels ELSE {0}) :
            LET r == json(wrapperSeverity(w), level, w, site, now, jb)
            IN  /\ j' = [st |-> "held", h |-> r.h, n |-> 0, max |-> max, fields |-> <<>>]
                /\ vmap' = r.vmap
                /\ jbufpool' = IF ~r.h.nil /\ BagIn(jb, jbufpool)
                               THEN jbufpool (-) SetToBag({jb}) ELSE jbufpool
                /\ gate' = Append(gate, [w |-> w, site |-> site, level |-> level,
                                         enabled |-> ~r.h.nil, looked |-> r.looked,
                                         pc |-> r.pc, v |-> r.v,
                                         verbosity |-> verbosity, vmodule |-> vmodule])
    /\ UNCHANGED <<configVars, vVars, mu, file, stderr, exitStatus, severityStats,
                   calls, th>>

---------------------------------------------------------------------------
(* The statement's chain: field builders, then Msg or Msgf *)

\* one more builder call on the handle the statement holds; f records the
\* call: the builder, the name and the value it was given
Chain(h, f) ==
    /\ exitStatus = Running
    /\ j.st = "held"
    /\ j.n < j.max
    /\ j' = [j EXCEPT !.h = h, !.n = @ + 1, !.fields = Append(@, f)]
    /\ UNCHANGED <<configVars, vVars, vmap, sinkVars, th, gate>>

Names == {<<107>>}                          \* "k"

\* Int, Int8, Int16, Int32 convert to int64 and call Int64
DoInt   == \E name \in Names, i \in {-5, 42} : Chain(Int64(j.h, name, i), <<"Int64", name>>)
\* Uint, Uint8, Uint16, Uint32 convert to uint64 and call Uint64
DoUint  == \E name \in Names, i \in {7} : Chain(Uint64(j.h, name, i), <<"Uint64", name>>)
DoFloat32 == \E name \in Names, f \in {<<49, 46, 53>>} : Chain(Float32(j.h, name, f), <<"Float32", name>>)
DoFloat64 == \E name \in Names, f \in {<<49, 46, 53>>} : Chain(Float64(j.h, name, f), <<"Float64", name>>)
DoBool  == \E name \in Names, b \in BOOLEAN : Chain(Bool(j.h, name, b), <<"Bool", name>>)
DoErr(T)  == \E e \in T : Chain(Err(j.h, e), <<"Err", <<>>, <<e>>>>)
DoStr(T)  == \E name \in Names, s \in T : Chain(Str(j.h, name, s), <<"Str", name, <<s>>>>)
DoStrs(L) == \E name \in Names, ss \in L : Chain(Strs(j.h, name, ss), <<"Strs", name, ss>>)

\* mutant of Msg: the nil check is lost
Msg_NoNilCheck(h, s) ==
    \E failAt \in FailTiers(h.s) :
        outputj(h.s, [h EXCEPT !.p = msgBytes(h.p, s)], h.file, h.line, FALSE, failAt)

\* Json.Msg(s) on handle h
Msg(h, s) ==
    IF ~h.nil
    THEN \E failAt \in FailTiers(h.s) :
            outputj(h.s, [h EXCEPT !.p = msgBytes(h.p, s)], h.file, h.line, FALSE, failAt)
    ELSE UNCHANGED sinkVars

\* Json.Msgf(format, v...) on handle h; text is fmt.Sprintf(format, v...)
Msgf(h, text) ==
    IF h.nil
    THEN Msg(h, text)
    ELSE UNCHANGED sinkVars

\* the statement ends with Msg
DoMsg(T) ==
    /\ exitStatus = Running
    /\ j.st = "held"
    /\ \E s \in T : Msg(j.h, s) /\ j' = [st |-> "done", h |-> j.h, n |-> j.n, fields |-> j.fields,
                                      end |-> "Msg", text |-> s]
    /\ UNCHANGED <<configVars, vVars, vmap, th, gate>>

\* the statement ends with Msgf
DoMsgf(T) ==
    /\ exitStatus = Running
    /\ j.st = "held"
    /\ \E s \in T : Msgf(j.h, s) /\ j' = [st |-> "done", h |-> j.h, n |-> j.n, fields |-> j.fields,
                                       end |-> "Msgf", text |-> s]
    /\ UNCHANGED <<configVars, vVars, vmap, th, gate>>

---------------------------------------------------------------------------
(* SpecJson: one logging statement, any wrapper, any chain of builders *)

Wrappers == {"J", "JInfo", "JWarning", "JError", "JFatal"}
jsonSites == {[file |-> sinkFile, line |-> 10, id |-> 1]}
Texts == {<<>>, <<97>>}                     \* "" and "a"
TextLists == {<<>>, <<<<97>>>>, <<<<97>>, <<98>>>>}

InitJson ==
    /\ parsed = TRUE /\ toStderr = FALSE /\ alsoToStderr = FALSE
    /\ stderrThreshold = errorLog /\ fatalNoStacks = FALSE /\ traceLocation = NoLocation
    /\ verbosity = 0 /\ vmodule = <<>> /\ inlined = FALSE
    /\ JVersion \in {<<>>, <<118, 49>>}
    /\ JFieldPrefix \in {<<>>, <<112, 95>>}
    /\ JEscapeHTML \in BOOLEAN
    /\ InitRest

JStart == Start({"idle"}, Wrappers, {0, 1}, jsonSites, MaxFields, Nows)
JInt == DoInt
JUint == DoUint
JFloat32 == DoFloat32
JFloat64 == DoFloat64
JBool == DoBool
JErr == DoErr({<<97>>})
JStr == DoStr(Texts)
JStrs == DoStrs(TextLists)
JMsg == DoMsg(Texts)
JMsgf == DoMsgf(Texts)

NextJson == \/ JStart \/ JInt \/ JUint \/ JFloat32 \/ JFloat64 \/ JBool
            \/ JErr \/ JStr \/ JStrs \/ JMsg \/ JMsgf

SpecJson == InitJson /\ [][NextJson]_vars

---------------------------------------------------------------------------
(* Claims about the record builder, checked under SpecJson *)

\* C4: on a nil handle every field builder returns the nil handle, and the
\* builders, Msg and Msgf write nothing to standard error or to a file, change
\* no counter, do not reach outputj (so do not take its lock) and do not end
\* the process.
C4_NilNoOp ==
    [][(j.st = "held" /\ j.h.nil) =>
          /\ j'.h.nil
          /\ UNCHANGED <<stderr, file, severityStats, mu, exitStatus, calls, jbufpool>>]_vars

\* C4 witness: a statement on a nil handle has chained two builders and ended
\* with Msgf
C4_Witness ==
    /\ j.st = "done" /\ j.h.nil /\ j.n >= 2 /\ j.end = "Msgf" /\ j.text # <<>>
    /\ stderr = <<>> /\ calls = <<>>

\* The comma structure of an emitted record, read off its bytes by a scanner.
\* Its state: m is where the scanner stands, r where it returns to once the
\* string literal it is in ends.
\*   "start" before '{'; "key" where a member must begin; "colon" behind a
\*   key; "value" behind ':'; "bare" inside a number or word; "end" behind a
\*   value; "arr0" behind '['; "arr1" behind an array element; "arr2" behind
\*   an array's comma; "close" behind '}'; "final" behind the newline;
\*   "str" and "esc" inside a string literal; "fail".
ScanAt(m) == [m |-> m, r |-> "none"]
BareByte(b) == b \in 48..57 \/ b \in 65..90 \/ b \in 97..122 \/ b \in {43, 45, 46}

scanStep(st, b) ==
    CASE st.m = "start" -> IF b = 123 THEN ScanAt("key") ELSE ScanAt("fail")
      [] st.m = "key"   -> IF b = 34 THEN [m |-> "str", r |-> "colon"] ELSE ScanAt("fail")
      [] st.m = "colon" -> IF b = 58 THEN ScanAt("value") ELSE ScanAt("fail")
      [] st.m = "value" -> IF b = 34 THEN [m |-> "str", r |-> "end"]
                           ELSE IF b = 91 THEN ScanAt("arr0")
                           ELSE IF BareByte(b) THEN ScanAt("bare")
                           ELSE ScanAt("fail")
      [] st.m = "bare"  -> IF BareByte(b) THEN st
                           ELSE IF b = 44 THEN ScanAt("key")
                           ELSE IF b = 125 THEN ScanAt("close")
                           ELSE ScanAt("fail")
      [] st.m = "end"   -> IF b = 44 THEN ScanAt("key")
                           ELSE IF b = 125 THEN ScanAt("close")
                           ELSE ScanAt("fail")
      [] st.m = "arr0"  -> IF b = 34 THEN [m |-> "str", r |-> "arr1"]
                           ELSE IF b = 93 THEN ScanAt("end")
                           ELSE ScanAt("fail")
      [] st.m = "arr1"  -> IF b = 44 THEN ScanAt("arr2")
                           ELSE IF b = 93 THEN ScanAt("end")
                           ELSE ScanAt("fail")
      [] st.m = "arr2"  -> IF b = 34 THEN [m |-> "str", r |-> "arr1"] ELSE ScanAt("fail")
      [] st.m = "close" -> IF b = 10 THEN ScanAt("final") ELSE ScanAt("fail")
      [] st.m = "str"   -> IF b = 92 THEN [st EXCEPT !.m = "esc"]
                           ELSE IF b = 34 THEN ScanAt(st.r)
                           ELSE st
      [] st.m = "esc"   -> [st EXCEPT !.m = "str"]
      [] OTHER          -> ScanAt("fail")

\* the scanner's state after p[lo..hi], the range halved to keep the
\* evaluation shallow
RECURSIVE scanRange(_, _, _, _)
scanRange(p, st, lo, hi) ==
    IF lo > hi THEN st
    ELSE IF lo = hi THEN scanStep(st, p[lo])
    ELSE LET mid == (lo + hi) \div 2
             left == scanRange(p, st, lo, mid)
         IN  IF left.m = "fail" THEN left ELSE scanRange(p, left, mid + 1, hi)

\* one object, '{' ... '}' '\n', whose members are separated by exactly one
\* comma each: none missing, leading, doubled or trailing
CommaSeparatedObject(p) == scanRange(p, ScanAt("start"), 1, Len(p)).m = "final"

\* C7: every record handed to the sink is one JSON object whose header
\* members, caller fields and message member are separated by exactly one
\* comma each, ended by '}' and a newline.
C7_CommaStructure == \A i \in CallIds : CommaSeparatedObject(calls[i].data)

\* C10: an enabled handle whose chain ends with Msgf has handed exactly one
\* record to the sink, the one Msg would hand over for the formatted text,
\* and once a non-fatal record is written its buffer is back in the pool.
C10_MsgfEmits ==
    (j.st = "done" /\ ~j.h.nil /\ j.end = "Msgf") =>
        /\ Len(calls) = 1
        /\ calls[1].data = msgBytes(j.h.p, j.text)
        /\ calls[1].outcome = "returned" => BagCardinality(jbufpool) >= 1

---------------------------------------------------------------------------
(* SpecEsc: one statement whose texts range over the characters that need
   escaping *)

MaxStrLen    == 2     \* units in a message text
MaxEscFields == 1     \* builder calls of the statement

\* 'a', '"', '\', newline, 0x01, '<', '>', '&', U+2028, U+2029
EscAlphabet == {97, 34, 92, 10, 1, 60, 62, 38, 8232, 8233}
TextsUpTo(n) == UNION {[1..k -> EscAlphabet] : k \in 0..n}
EscTexts == TextsUpTo(MaxStrLen)
EscLists == {<<>>} \cup {<<s>> : s \in TextsUpTo(1)} \cup {<<<<97, 60>>, <<34>>>>}

InitEsc ==
    /\ parsed = TRUE /\ toStderr = FALSE /\ alsoToStderr = FALSE
    /\ stderrThreshold = errorLog /\ fatalNoStacks = FALSE /\ traceLocation = NoLocation
    /\ verbosity = 0 /\ vmodule = <<>> /\ inlined = FALSE
    /\ JVersion = <<>>
    /\ JFieldPrefix = <<>>
    /\ JEscapeHTML \in BOOLEAN
    /\ InitRest

EStart == Start({"idle"}, {"JInfo", "JError"}, {0}, jsonSites, MaxEscFields, Nows)
EErr == DoErr(EscTexts)
EStr == DoStr(EscTexts)
EStrs == DoStrs(EscLists)
EMsg == DoMsg(EscTexts)

NextEsc == EStart \/ EErr \/ EStr \/ EStrs \/ EMsg

SpecEsc == InitEsc /\ [][NextEsc]_vars

\* The reading of a JSON string literal.
hexValue(b) == IF b <= 57 THEN b - 48 ELSE b - 87

\* the units a literal's interior lit[i..] stands for; <<-1>> where it is
\* not well formed (a raw quote, a raw control character, a bad escape)
RECURSIVE decodeFrom(_, _)
decodeFrom(lit, i) ==
    IF i > Len(lit) THEN <<>>
    ELSE IF lit[i] = 34 \/ lit[i] < 32 THEN <<-1>>
    ELSE IF lit[i] # 92 THEN <<lit[i]>> \o decodeFrom(lit, i + 1)
    ELSE IF i + 1 > Len(lit) THEN <<-1>>
    ELSE IF lit[i + 1] \in {34, 92} THEN <<lit[i + 1]>> \o decodeFrom(lit, i + 2)
    ELSE IF lit[i + 1] = 110 THEN <<10>> \o decodeFrom(lit, i + 2)
    ELSE IF lit[i + 1] = 114 THEN <<13>> \o decodeFrom(lit, i + 2)
    ELSE IF lit[i + 1] = 116 THEN <<9>> \o decodeFrom(lit, i + 2)
    ELSE IF lit[i + 1] = 117 /\ i + 5 <= Len(lit)
    THEN <<4096 * hexValue(lit[i + 2]) + 256 * hexValue(lit[i + 3])
           + 16 * hexValue(lit[i + 4]) + hexValue(lit[i + 5])>> \o decodeFrom(lit, i + 6)
    ELSE <<-1>>

\* data[k..e] is a string literal that reads back as text
Represents(data, k, e, text) ==
    /\ k < e /\ e <= Len(data) /\ data[k] = 34 /\ data[e] = 34
    /\ decodeFrom(SubSeq(data, k + 1, e - 1), 1) = text

\* where a literal for text that starts at k can end
LitEnds(data, k, text) ==
    {e \in (k + 1 + Len(text))..(k + 1 + 6 * Len(text)) : Represents(data, k, e, text)}

\* the bytes key end right before k
KeyBefore(data, k, key) == k > Len(key) /\ SubSeq(data, k - Len(key), k - 1) = key

\* literals for ss[i..], comma-separated, start at k and are closed by ']'
RECURSIVE ListAt(_, _, _, _)
ListAt(data, k, ss, i) ==
    IF i > Len(ss) THEN k <= Len(data) /\ data[k] = 93
    ELSE \E e \in LitEnds(data, k, ss[i]) :
            IF i = Len(ss) THEN ListAt(data, e + 1, ss, i + 1)
            ELSE e + 1 <= Len(data) /\ data[e + 1] = 44 /\ ListAt(data, e + 2, ss, i + 1)

quoted(name) == <<34>> \o JFieldPrefix \o name \o <<34, 58>>

\* the record carries the texts of builder call f in escaped form
FieldEscaped(data, f) ==
    CASE f[1] = "Str"  -> \E k \in 1..Len(data) :
                             KeyBefore(data, k, quoted(f[2])) /\ LitEnds(data, k, f[3][1]) # {}
      [] f[1] = "Err"  -> \E k \in 1..Len(data) :
                             /\ KeyBefore(data, k, <<34, 101, 114, 114, 111, 114, 34, 58>>)
                             /\ LitEnds(data, k, f[3][1]) # {}
      [] f[1] = "Strs" -> \E k \in 1..Len(data) :
                             KeyBefore(data, k, quoted(f[2]) \o <<91>>) /\ ListAt(data, k, f[3], 1)
      [] OTHER -> TRUE

\* the record carries the message text in escaped form, as its last member
MessageEscaped(data, text) ==
    text # <<>> =>
        \E k \in 1..Len(data) :
            /\ KeyBefore(data, k, <<34, 109, 101, 115, 115, 97, 103, 101, 34, 58>>)
            /\ Len(data) - 2 \in LitEnds(data, k, text)

\* no literal '<', '>' or '&' and no raw control character, U+2028 or U+2029
\* (the newline that ends the record apart)
NoRawHtml(data) ==
    \A i \in 1..(Len(data) - 1) :
        data[i] \notin {60, 62, 38, 8232, 8233} /\ data[i] >= 32

\* C8: with JEscapeHTML set, the record of a statement holds no literal '<',
\* '>' or '&', and every '"', '\', control character, U+2028 and U+2029 of
\* its message and of its string fields is there in escaped form.
C8_HtmlSafeRecord ==
    (JEscapeHTML /\ j.st = "done" /\ ~j.h.nil /\ j.end = "Msg" /\ Len(calls) = 1) =>
        LET data == calls[1].data IN
        /\ NoRawHtml(data)
        /\ MessageEscaped(data, j.text)
        /\ \A i \in 1..Len(j.fields) : FieldEscaped(data, j.fields[i])

---------------------------------------------------------------------------
(* SpecV: J(level) statements in two source files, under a default
   verbosity and a vmodule ruleset that change between statements *)

MaxGate  == 2     \* J(level) statements
MaxLevel == 2     \* levels 0..MaxLevel

foobarGo == <<102, 111, 111, 98, 97, 114, 46, 103, 111>>     \* "foobar.go"
mainGo   == <<109, 97, 105, 110, 46, 103, 111>>              \* "main.go"
vSites   == {[file |-> foobarGo, line |-> 10, id |-> 1], [file |-> mainGo, line |-> 20, id |-> 2]}

\* the pattern "foo*"
fooStar == <<102, 111, 111, 42>>
Rule(pat, level) == [pattern |-> pat, level |-> level]
\* none, foo*=2, foo*=1, and foo*=1 before the catch-all *=2
RuleSets == {<<>>, <<Rule(fooStar, 2)>>, <<Rule(fooStar, 1)>>,
             <<Rule(fooStar, 1), Rule(<<42>>, 2)>>}

InitV ==
    /\ parsed = TRUE /\ toStderr = FALSE /\ alsoToStderr = FALSE
    /\ stderrThreshold = errorLog /\ fatalNoStacks = FALSE /\ traceLocation = NoLocation
    /\ verbosity \in 0..MaxLevel
    /\ vmodule \in RuleSets
    /\ inlined \in BOOLEAN
    /\ JVersion = <<>> /\ JFieldPrefix = <<>> /\ JEscapeHTML = FALSE
    /\ InitRest

\* a statement J(level)...
VStart ==
    /\ Len(gate) < MaxGate
    /\ Start({"idle", "done"}, {"J"}, 0..MaxLevel, vSites, 0, Nows \cup EarlyNows)
\* ....Msg("a")
VMsg == DoMsg({<<97>>})

\* the vmodule flag is set between two statements; the cache is emptied
SetVModule ==
    /\ exitStatus = Running
    /\ j.st # "held"
    /\ Len(gate) < MaxGate
    /\ \E f \in RuleSets \ {vmodule} : vmodule' = f
    /\ vmap' = <<>>
    /\ UNCHANGED <<configVars, verbosity, inlined, sinkVars, j, th, gate>>

\* the v flag is set between two statements; the cache is emptied
SetVerbosity ==
    /\ exitStatus = Running
    /\ j.st # "held"
    /\ Len(gate) < MaxGate
    /\ \E v \in (0..MaxLevel) \ {verbosity} : verbosity' = v
    /\ vmap' = <<>>
    /\ UNCHANGED <<configVars, vmodule, inlined, sinkVars, j, th, gate>>

NextV == VStart \/ VMsg \/ SetVModule \/ SetVerbosity

SpecV == InitV /\ [][NextV]_vars

GateIds == 1..Len(gate)

\* the threshold the rules in force give the file of statement g: the level
\* of the first rule that matches its name, else the default verbosity
Resolved(g) == firstMatch(g.vmodule, 1, bareName(g.site.file), g.verbosity)

\* C5: J(level) returns an enabled handle if and only if level is at most
\* the threshold resolved for the file of the calling statement.
C5_ActiveIffWithinThreshold ==
    \A i \in GateIds : gate[i].enabled <=> gate[i].level <= Resolved(gate[i])

\* C6: a lookup is keyed by the calling statement, so statements in different
\* files use different keys, and the threshold it yields is the one of the
\* statement's own file; with verbosity 0 and the rule foo*=2, J(2) is active
\* in foobar.go and inactive in main.go.
C6_KeyedByStatement ==
    /\ \A a \in GateIds, b \in GateIds :
          (gate[a].looked /\ gate[b].looked /\ gate[a].site.file # gate[b].site.file)
              => gate[a].pc # gate[b].pc
    /\ \A i \in GateIds : gate[i].looked => gate[i].v = Resolved(gate[i])
    /\ \A i \in GateIds :
          (gate[i].verbosity = 0 /\ gate[i].vmodule = <<Rule(fooStar, 2)>> /\ gate[i].level = 2)
              => (gate[i].enabled <=> gate[i].site.file = foobarGo)

---------------------------------------------------------------------------
(* SpecConc: goroutines call outputj concurrently; the method advances one
   step at a time, from l.mu.Lock() to its return or to the exit *)

NThreads == 2     \* goroutines that log

Threads == 1..NThreads

\* where a goroutine stands in outputj, and what the invocation has done
IdleThread == [pc |-> "idle", id |-> 0, s |-> infoLog, also |-> FALSE, data |-> <<>>,
               tier |-> infoLog, unlocks |-> 0]

InitConc ==
    /\ \/ parsed = FALSE /\ toStderr = FALSE
       \/ parsed = TRUE /\ toStderr \in BOOLEAN
    /\ alsoToStderr = FALSE
    /\ stderrThreshold = errorLog
    /\ fatalNoStacks \in BOOLEAN
    /\ traceLocation = NoLocation
    /\ verbosity = 0 /\ vmodule = <<>> /\ inlined = FALSE
    /\ JVersion = <<>> /\ JFieldPrefix = <<>> /\ JEscapeHTML = FALSE
    /\ mu = Free
    /\ file = [t \in Severities |-> NoFile]
    /\ stderr = <<>>
    /\ exitStatus = Running
    /\ severityStats = NoStats
    /\ jbufpool = EmptyBag
    /\ vmap = <<>>
    /\ j = Idle
    /\ th = [t \in Threads |-> IdleThread]
    /\ calls = <<>>
    /\ gate = <<>>

\* the pcs between l.mu.Lock() and l.mu.Unlock()
SectionPcs == {"route", "create", "fan", "post", "trace", "unlockFatal", "unlock"}

At(t, pc) == exitStatus = Running /\ th[t].pc = pc
Goto(t, pc) == th' = [th EXCEPT ![t].pc = pc]
Outcome(t, outcome, flushed) ==
    calls' = [calls EXCEPT ![th[t].id].outcome = outcome, ![th[t].id].flushed = flushed]

\* a goroutine calls outputj(s, buf, file, line, alsoToStderr)
outputjCall ==
    \E t \in Threads :
        /\ At(t, "idle")
        /\ Len(calls) < MaxCalls
        /\ \E s \in Severities :
             LET id == Len(calls) + 1
                 also == FALSE
                 data == recordData(sinkRecord, sinkFile, 10)
             IN  /\ th' = [th EXCEPT ![t] = [IdleThread EXCEPT !.pc = "lock", !.id = id, !.s = s,
                                                             !.also = also, !.data = data]]
                 /\ calls' = Append(calls, Call(id, s, also, data, "running", FALSE))
        /\ UNCHANGED <<configVars, vVars, vmap, mu, file, stderr, exitStatus, severityStats,
                       jbufpool, j, gate>>

\* mutant of lockFree: Lock does not wait for the holder
lockFree_NoWait(m) == TRUE

\* l.mu.Lock() can return: nobody holds the mutex
lockFree(m) == m = Free

\* l.mu.Lock()
muLock ==
    \E t \in Threads :
        /\ At(t, "lock")
        /\ lockFree(mu)
        /\ mu' = t
        /\ Goto(t, "route")
        /\ UNCHANGED <<configVars, vVars, vmap, file, stderr, exitStatus, severityStats,
                       jbufpool, j, calls, gate>>

\* the routing to standard error, up to the test of l.file[s]
route ==
    \E t \in Threads :
        LET w == W(th[t].id, "data", th[t].data) IN
        /\ At(t, "route")
        /\ stderr' = IF ~parsed THEN stderr \o <<W(th[t].id, "prefix", beforeParse), w>>
                     ELSE IF toStderr THEN Append(stderr, w)
                     ELSE IF mirrorToStderr(th[t].s, th[t].also) THEN Append(stderr, w)
                     ELSE stderr
        /\ th' = [th EXCEPT ![t].pc = IF ~parsed \/ toStderr THEN "post"
                                      ELSE IF ~file[th[t].s].open THEN "create" ELSE "fan",
                            ![t].tier = th[t].s]
        /\ UNCHANGED <<configVars, vVars, vmap, mu, file, exitStatus, severityStats,
                       jbufpool, j, calls, gate>>

\* l.createFiles(s), and on its error the write to standard error and l.exit
ensureFile ==
    \E t \in Threads :
        /\ At(t, "create")
        /\ \E failAt \in FailTiers(th[t].s) :
             /\ file' = createFiles(file, th[t].s, failAt)
             /\ IF failAt >= 0
                THEN /\ stderr' = Append(stderr, W(th[t].id, "data", th[t].data))
                     /\ exitStatus' = <<ErrExit>>
                     /\ Goto(t, "exited")
                     /\ Outcome(t, "createFailed", FALSE)
                ELSE /\ Goto(t, "fan")
                     /\ UNCHANGED <<stderr, exitStatus, calls>>
        /\ UNCHANGED <<configVars, vVars, vmap, mu, severityStats, jbufpool, j, gate>>

\* one case of the switch: l.file[tier].Write(data), then the next lower case
writeTier ==
    \E t \in Threads :
        LET lower == {u \in fanOutTiers(th[t].s) : u < th[t].tier} IN
        /\ At(t, "fan")
        /\ file' = [file EXCEPT ![th[t].tier].w = Append(@, W(th[t].id, "data", th[t].data))]
        /\ th' = IF lower = {} THEN [th EXCEPT ![t].pc = "post"]
                 ELSE [th EXCEPT ![t].tier = CHOOSE u \in lower : \A v \in lower : v <= u]
        /\ UNCHANGED <<configVars, vVars, vmap, mu, stderr, exitStatus, severityStats,
                       jbufpool, j, calls, gate>>

\* a FATAL record, no-stacks flag clear: os.Stderr.Write(stacks(false)) unless
\* everything goes to standard error anyway
fatalStack ==
    \E t \in Threads :
        /\ At(t, "post")
        /\ th[t].s = fatalLog /\ ~fatalNoStacks
        /\ stderr' = IF ~toStderr THEN Append(stderr, W(th[t].id, "stack", stackSelf)) ELSE stderr
        /\ Goto(t, "trace")
        /\ UNCHANGED <<configVars, vVars, vmap, mu, file, exitStatus, severityStats,
                       jbufpool, j, calls, gate>>

\* the loop that writes stacks(true) to the files
fatalTrace ==
    \E t \in Threads :
        /\ At(t, "trace")
        /\ file' = fatalDump(file, W(th[t].id, "trace", stackAll))
        /\ Goto(t, "unlockFatal")
        /\ UNCHANGED <<configVars, vVars, vmap, mu, stderr, exitStatus, severityStats,
                       jbufpool, j, calls, gate>>

\* l.mu.Unlock() on the two fatal paths
fatalUnlock ==
    \E t \in Threads :
        /\ \/ At(t, "post") /\ th[t].s = fatalLog /\ fatalNoStacks
           \/ At(t, "unlockFatal")
        /\ mu' = Free
        /\ th' = [th EXCEPT ![t].pc = "flush", ![t].unlocks = @ + 1]
        /\ UNCHANGED <<configVars, vVars, vmap, file, stderr, exitStatus, severityStats,
                       jbufpool, j, calls, gate>>

\* timeoutFlush(10 * time.Second), which returns whoever holds the mutex, and
\* os.Exit(1) or os.Exit(255)
flushExit ==
    \E t \in Threads :
        /\ At(t, "flush")
        /\ exitStatus' = IF fatalNoStacks THEN <<1>> ELSE <<255>>
        /\ Goto(t, "exited")
        /\ Outcome(t, "exit", TRUE)
        /\ UNCHANGED <<configVars, vVars, vmap, mu, file, stderr, severityStats,
                       jbufpool, j, gate>>

\* jbufpool.Put(buf)
poolPut ==
    \E t \in Threads :
        /\ At(t, "post")
        /\ th[t].s # fatalLog
        /\ jbufpool' = jbufpool (+) SetToBag({[sinkRecord EXCEPT !.p = th[t].data]})
        /\ Goto(t, "unlock")
        /\ UNCHANGED <<configVars, vVars, vmap, mu, file, stderr, exitStatus, severityStats,
                       j, calls, gate>>

\* l.mu.Unlock() before the return
muUnlock ==
    \E t \in Threads :
        /\ At(t, "unlock")
        /\ mu' = Free
        /\ th' = [th EXCEPT ![t].pc = "stats", ![t].unlocks = @ + 1]
        /\ UNCHANGED <<configVars, vVars, vmap, file, stderr, exitStatus, severityStats,
                       jbufpool, j, calls, gate>>

\* the atomic additions to severityStats[s], and the return
addStats ==
    \E t \in Threads :
        /\ At(t, "stats")
        /\ severityStats' =
               IF HasStats(th[t].s)
               THEN [severityStats EXCEPT ![th[t].s] = [lines |-> @.lines + 1,
                                                        bytes |-> @.bytes + Len(th[t].data)]]
               ELSE severityStats
        /\ Goto(t, "idle")
        /\ Outcome(t, "returned", FALSE)
        /\ UNCHANGED <<configVars, vVars, vmap, mu, file, stderr, exitStatus, jbufpool, j, gate>>

NextConc ==
    \/ outputjCall \/ muLock \/ route \/ ensureFile \/ writeTier
    \/ fatalStack \/ fatalTrace \/ fatalUnlock \/ flushExit
    \/ poolPut \/ muUnlock \/ addStats

SpecConc == InitConc /\ [][NextConc]_vars

InSection(t) == th[t].pc \in SectionPcs

\* the invocation of t ended through l.exit, on a createFiles error
LeftThroughExit(t) == th[t].pc = "exited" /\ exitStatus = <<ErrExit>>

\* a goroutine between Lock and Unlock holds the mutex: one at a time
MutualExclusion == \A t \in Threads : InSection(t) => mu = t

\* the writes a step appends to a stream are the holder's
NewWritesBy(old, new, holder) ==
    \A i \in (Len(old) + 1)..Len(new) : holder \in Threads /\ new[i].id = th[holder].id
WritesByHolder ==
    /\ NewWritesBy(stderr, stderr', mu)
    /\ \A s \in Severities : NewWritesBy(file[s].w, file'[s].w, mu)

\* the writes of one invocation lie together on a stream
Whole(ws) == \A a \in 1..Len(ws), b \in 1..Len(ws), c \in 1..Len(ws) :
                (a < b /\ b < c /\ ws[a].id = ws[c].id) => ws[b].id = ws[a].id
\* the invocations that wrote to a stream, in the order of their first write
RECURSIVE IdOrder(_, _)
IdOrder(ws, n) ==
    IF n = 0 THEN <<>>
    ELSE LET before == IdOrder(ws, n - 1)
         IN  IF \E i \in 1..Len(before) : before[i] = ws[n].id THEN before
             ELSE Append(before, ws[n].id)
Restrict(ids, keep) == SelectSeq(ids, LAMBDA x : x \in keep)
Range(f) == {f[i] : i \in DOMAIN f}
SameOrder(ws1, ws2) ==
    LET o1 == IdOrder(ws1, Len(ws1))
        o2 == IdOrder(ws2, Len(ws2))
        both == Range(o1) \cap Range(o2)
    IN  Restrict(o1, both) = Restrict(o2, both)
Streams == {stderr} \cup {file[s].w : s \in Severities}
RecordsWholeAndOrdered ==
    /\ \A ws \in Streams : Whole(ws)
    /\ \A ws1 \in Streams, ws2 \in Streams : SameOrder(ws1, ws2)

\* an invocation that has returned, or has reached the flush and the exit
Finished(t) ==
    \/ th[t].pc \in {"stats", "flush", "exited"}
    \/ th[t].pc = "idle" /\ th[t].id > 0

\* C9 as stated: writes happen under the mutex, one goroutine at a time, the
\* records whole and in one order on all streams; on every path the mutex is
\* released exactly once before the return or the exit, and nobody who is
\* outside the section holds it.
C9_Original ==
    /\ [](/\ MutualExclusion
          /\ RecordsWholeAndOrdered
          /\ \A t \in Threads : th[t].unlocks <= 1
          /\ \A t \in Threads : Finished(t) => th[t].unlocks = 1
          /\ \A t \in Threads : mu = t => InSection(t))
    /\ [][WritesByHolder]_vars

\* C9 amended: as C9 on every path but the createFiles error, where l.exit
\* ends the process while the mutex is still held.
C9_LockDiscipline ==
    /\ [](/\ MutualExclusion
          /\ RecordsWholeAndOrdered
          /\ \A t \in Threads : th[t].unlocks <= 1
          /\ \A t \in Threads : (Finished(t) /\ ~LeftThroughExit(t)) => th[t].unlocks = 1
          /\ \A t \in Threads : LeftThroughExit(t) => th[t].unlocks = 0 /\ mu = t
          /\ \A t \in Threads : mu = t => InSection(t) \/ LeftThroughExit(t))
    /\ [][WritesByHolder]_vars

\* C9 witness: goroutine 1 waits in Lock while goroutine 2, in the middle of
\* its fan-out, has written the record to one file and not yet to the next
C9_Witness ==
    /\ th[1].pc = "lock"
    /\ th[2].pc = "fan" /\ th[2].tier < th[2].s
    /\ mu = 2

===========================================================================
